---- MODULE Spec2Model ----
(***************************************************************************)
(* A model of two pieces of ferrilab:                                      *)
(*   radium  (src/radium/src/lib.rs): the Radium<T> trait, implemented by  *)
(*           the atomic wrappers (atomic mode) and by Cell<T> (plain mode) *)
(*   bitvec  (src/bitvec/src/boxed/api.rs): BitBox::from_raw / into_raw /  *)
(*           leak, the ownership hand-over of an owned bit region          *)
(*                                                                         *)
(* Spec      one element driven through both Radium implementations in     *)
(*           lockstep by a single thread                                   *)
(* SpecConc  several threads issuing atomic-mode operations on one element *)
(* SpecBox   the life cycle of BitBox regions, raw pointers and the heap   *)
(***************************************************************************)
EXTENDS Integers, Sequences, FiniteSets, TLC

\* Width in bits of the modelled integer fundamental (the code instantiates
\* 8..64 bit integers, lib.rs 608-620; the model uses a narrow one).
Width == 2

\* Number of threads sharing one atomic element in SpecConc.
NThreads == 2

\* SpecBox: how many BitBox values a run creates (allocated or reconstructed).
MaxBoxes == 3

\* SpecBox: how many of them are allocated from a source bit sequence.
MaxAllocs == 2

\* SpecBox: the longest source bit sequence a region is allocated from.
MaxBits == 2

\* SpecCodec: the width in bits of an address and of a length word.
WordBits == 8

VARIABLES
    ty,         \* the element's fundamental type: "bool", "int" or "ptr"
    atom,       \* value stored in the atomic wrapper
    cell,       \* value stored in the Cell
    atomRes,    \* what the last operation returned in atomic mode
    cellRes,    \* what the last operation returned in plain mode
    last,       \* the last operation issued: name, arguments, values before it
    spurious,   \* some atomic compare_exchange_weak has failed spuriously
    wrote,      \* the values the last call other than load and fence left stored
    fresh,      \* no such call has been made since new
    shared,     \* SpecConc: the element all threads operate on
    initial,    \* SpecConc: the value the element was created with
    tpc,        \* SpecConc: per thread "ready" or "done"
    targ,       \* SpecConc: per thread the operand of its operation
    tres,       \* SpecConc: per thread the value its operation returned
    ord,        \* SpecBox: the bit ordering O of BitBox<O, T>
    source,     \* SpecBox: the bit slice x regions are allocated from
    heap,       \* SpecBox: the allocations made so far, in order
    mem,        \* SpecBox: the <<element address, bit position>> pairs holding 1
    boxes,      \* SpecBox: every BitBox value created so far, in order
    raws,       \* SpecBox: every raw pointer / leaked reference handed out
    foreign,    \* SpecBox: a deallocation was asked for memory never allocated so
    codec       \* SpecCodec: one handle's inputs, encoding and decoding

radiumVars == <<ty, atom, cell, atomRes, cellRes, last, spurious, wrote, fresh>>
concVars == <<shared, initial, tpc, targ, tres>>
boxVars == <<ord, source, heap, mem, boxes, raws, foreign>>
codecVars == <<codec>>
vars == <<radiumVars, concVars, boxVars, codecVars>>

----------------------------------------------------------------------------
\* Fundamentals and their values

Types == {"bool", "int", "ptr"}

RECURSIVE Pow2(_)
Pow2(n) == IF n = 0 THEN 1 ELSE 2 * Pow2(n - 1)

\* bool is one bit; integers and (modelled) addresses are Width bits.
BitsOf(t) == IF t = "bool" THEN 1 ELSE Width

Values(t) == 0 .. (Pow2(BitsOf(t)) - 1)

\* impl IsBits: bool (bit arm) and every integer (int arm); not pointers.
IsBits(t) == t \in {"bool", "int"}

\* IsANum also implemented in the bit arm, for bool.
IsANum_with_bool(t) == t \in {"int", "bool"}

\* impl IsANum: every integer (int arm) only.
IsANum(t) == t = "int"

\* core::sync::atomic::Ordering
Orderings == {"Relaxed", "Release", "Acquire", "AcqRel", "SeqCst"}

----------------------------------------------------------------------------
\* The primitive operators of the fundamentals, on w-bit patterns

RECURSIVE BitAnd(_, _, _)
BitAnd(x, y, w) ==
    IF w = 0 THEN 0
    ELSE ((x % 2) * (y % 2)) + 2 * BitAnd(x \div 2, y \div 2, w - 1)

RECURSIVE BitOr(_, _, _)
BitOr(x, y, w) ==
    IF w = 0 THEN 0
    ELSE (IF (x % 2) + (y % 2) > 0 THEN 1 ELSE 0)
         + 2 * BitOr(x \div 2, y \div 2, w - 1)

RECURSIVE BitXor(_, _, _)
BitXor(x, y, w) ==
    IF w = 0 THEN 0
    ELSE (((x % 2) + (y % 2)) % 2) + 2 * BitXor(x \div 2, y \div 2, w - 1)

\* `!x`: logical not on bool, bitwise complement on integers.
BitNot(x, w) == (Pow2(w) - 1) - x

wrapping_add(x, y, w) == (x + y) % Pow2(w)

wrapping_sub(x, y, w) == ((x - y) + Pow2(w)) % Pow2(w)

----------------------------------------------------------------------------
\* Results of operations

Val(v) == [tag |-> "Val", v |-> v]
Ok(v) == [tag |-> "Ok", v |-> v]
Err(v) == [tag |-> "Err", v |-> v]
Unit == [tag |-> "Unit", v |-> 0]
\* a panic raised by core::sync::atomic for an ordering it does not accept
Panic == [tag |-> "Panic", v |-> 0]
\* the unreachable!() body of a method the element type has no capability for
Unreachable == [tag |-> "Unreachable", v |-> 0]
NoRes == [tag |-> "None", v |-> 0]

Out(val, res) == [val |-> val, res |-> res]

----------------------------------------------------------------------------
\* Atomic mode: `radium!(atom ..)`, `(atom_bit ..)`, `(atom_int ..)` forward
\* every call to the inherent method of the core::sync::atomic wrapper.

\* core: the strongest failure ordering a success ordering allows.
strongest_failure_ordering(order) ==
    CASE order = "Release" -> "Relaxed"
      [] order = "Relaxed" -> "Relaxed"
      [] order = "SeqCst" -> "SeqCst"
      [] order = "Acquire" -> "Acquire"
      [] order = "AcqRel" -> "Acquire"

OrderRank(order) ==
    CASE order = "Relaxed" -> 0
      [] order = "Acquire" -> 1
      [] order = "SeqCst" -> 2
      [] OTHER -> 3

\* The orderings core::sync::atomic refuses with a panic.
LoadOrderPanics(order) == order \in {"Release", "AcqRel"}
StoreOrderPanics(order) == order \in {"Acquire", "AcqRel"}
FenceOrderPanics(order) == order = "Relaxed"
\* every toolchain refuses a Release or AcqRel failure ordering
CmpxchgOrderPanics(success, failure) == failure \in {"Release", "AcqRel"}
\* toolchains before 1.64 also refuse a failure ordering stronger than the
\* success ordering; later ones accept it
CmpxchgOrderMayPanic(success, failure) ==
    /\ ~CmpxchgOrderPanics(success, failure)
    /\ OrderRank(failure) > OrderRank(strongest_failure_ordering(success))

atom_fence(order) == IF FenceOrderPanics(order) THEN Panic ELSE Unit

\* AtomicX::new(value): the value the new element holds
atom_new(value) == value

\* AtomicX::into_inner consumes the element and returns its value.
atom_into_inner(v) == Out(v, Val(v))

atom_load(v, order) ==
    IF LoadOrderPanics(order) THEN Out(v, Panic) ELSE Out(v, Val(v))

atom_store(v, value, order) ==
    IF StoreOrderPanics(order) THEN Out(v, Panic) ELSE Out(value, Unit)

atom_swap(v, value, order) == Out(value, Val(v))

\* the set of outcomes of one atomic compare-exchange instruction
\* compare_exchange that stores without comparing, as a swap does.
atom_compare_exchange_as_swap(v, current, new, success, failure) ==
    {Out(new, Ok(v))}

atom_compare_exchange(v, current, new, success, failure) ==
    LET done == IF v = current THEN Out(new, Ok(v)) ELSE Out(v, Err(v))
    IN  IF CmpxchgOrderPanics(success, failure) THEN {Out(v, Panic)}
        ELSE IF CmpxchgOrderMayPanic(success, failure)
             THEN {Out(v, Panic), done}
             ELSE {done}

\* compare_exchange_weak may fail although the comparison succeeds
atom_compare_exchange_weak(v, current, new, success, failure) ==
    LET done == IF v = current
                THEN {Out(new, Ok(v)), Out(v, Err(v))}
                ELSE {Out(v, Err(v))}
    IN  IF CmpxchgOrderPanics(success, failure) THEN {Out(v, Panic)}
        ELSE IF CmpxchgOrderMayPanic(success, failure)
             THEN {Out(v, Panic)} \cup done
             ELSE done

\* core: compare_exchange(current, new, order, strongest_failure_ordering(order)),
\* returning the value of either arm
atom_compare_and_swap(v, current, new, order) ==
    IF v = current THEN Out(new, Val(v)) ELSE Out(v, Val(v))

atom_fetch_and(t, v, value, order) ==
    IF t = "ptr" THEN Out(v, Unreachable)
    ELSE Out(BitAnd(v, value, BitsOf(t)), Val(v))

atom_fetch_nand(t, v, value, order) ==
    IF t = "ptr" THEN Out(v, Unreachable)
    ELSE Out(BitNot(BitAnd(v, value, BitsOf(t)), BitsOf(t)), Val(v))

\* fetch_or that stores the operand instead of or-ing it in.
atom_fetch_or_overwrites(t, v, value, order) ==
    IF t = "ptr" THEN Out(v, Unreachable) ELSE Out(value, Val(v))

atom_fetch_or(t, v, value, order) ==
    IF t = "ptr" THEN Out(v, Unreachable)
    ELSE Out(BitOr(v, value, BitsOf(t)), Val(v))

atom_fetch_xor(t, v, value, order) ==
    IF t = "ptr" THEN Out(v, Unreachable)
    ELSE Out(BitXor(v, value, BitsOf(t)), Val(v))

atom_fetch_add(t, v, value, order) ==
    IF t # "int" THEN Out(v, Unreachable)
    ELSE Out(wrapping_add(v, value, BitsOf(t)), Val(v))

atom_fetch_sub(t, v, value, order) ==
    IF t # "int" THEN Out(v, Unreachable)
    ELSE Out(wrapping_sub(v, value, BitsOf(t)), Val(v))

----------------------------------------------------------------------------
\* Plain mode: `radium!(cell ..)`, `(cell_bit ..)`, `(cell_int ..)` on Cell<T>.
\* Every ordering argument is bound to `_`.

cell_fence(order) == Unit

\* Cell::new(value): the value the new element holds
cell_new(value) == value

\* Cell::into_inner consumes the element and returns its value.
cell_into_inner(v) == Out(v, Val(v))

\* load through Cell::take: the value is moved out and the default left.
cell_load_takes(v, order) == Out(0, Val(v))

cell_load(v, order) == Out(v, Val(v))

\* store that refuses the orderings an atomic store refuses.
cell_store_checks_order(v, value, order) ==
    IF StoreOrderPanics(order) THEN Out(v, Panic) ELSE Out(value, Unit)

cell_store(v, value, order) == Out(value, Unit)

\* swap that returns the value it stores.
cell_swap_returns_new(v, value, order) == Out(value, Val(value))

cell_swap(v, value, order) == Out(value, Val(v))

\* compare_and_swap that returns what it has just stored.
cell_compare_and_swap_returns_new(v, current, new, order) ==
    IF v = current THEN Out(new, Val(new)) ELSE Out(v, Val(v))

cell_compare_and_swap(v, current, new, order) ==
    IF v = current THEN Out(new, Val(v)) ELSE Out(v, Val(v))

\* compare_exchange whose failure arm returns `current`, not the stored value.
cell_compare_exchange_err_current(v, current, new, success, failure) ==
    IF v = current THEN Out(new, Ok(v)) ELSE Out(v, Err(current))

cell_compare_exchange(v, current, new, success, failure) ==
    IF v = current THEN Out(new, Ok(v)) ELSE Out(v, Err(v))

\* compare_exchange_weak that gives up without comparing.
cell_compare_exchange_weak_gives_up(v, current, new, success, failure) ==
    Out(v, Err(v))

cell_compare_exchange_weak(v, current, new, success, failure) ==
    cell_compare_exchange(v, current, new, success, failure)

cell_fetch_and(t, v, value, order) ==
    IF t = "ptr" THEN Out(v, Unreachable)
    ELSE Out(BitAnd(v, value, BitsOf(t)), Val(v))

\* fetch_nand without the `!`.
cell_fetch_nand_without_not(t, v, value, order) ==
    IF t = "ptr" THEN Out(v, Unreachable)
    ELSE Out(BitAnd(v, value, BitsOf(t)), Val(v))

cell_fetch_nand(t, v, value, order) ==
    IF t = "ptr" THEN Out(v, Unreachable)
    ELSE Out(BitNot(BitAnd(v, value, BitsOf(t)), BitsOf(t)), Val(v))

\* fetch_or written with `^`.
cell_fetch_or_as_xor(t, v, value, order) ==
    IF t = "ptr" THEN Out(v, Unreachable)
    ELSE Out(BitXor(v, value, BitsOf(t)), Val(v))

cell_fetch_or(t, v, value, order) ==
    IF t = "ptr" THEN Out(v, Unreachable)
    ELSE Out(BitOr(v, value, BitsOf(t)), Val(v))

cell_fetch_xor(t, v, value, order) ==
    IF t = "ptr" THEN Out(v, Unreachable)
    ELSE Out(BitXor(v, value, BitsOf(t)), Val(v))

cell_fetch_add(t, v, value, order) ==
    IF t # "int" THEN Out(v, Unreachable)
    ELSE Out(wrapping_add(v, value, BitsOf(t)), Val(v))

\* fetch_sub that stops at zero instead of wrapping.
cell_fetch_sub_saturating(t, v, value, order) ==
    IF t # "int" THEN Out(v, Unreachable)
    ELSE Out(IF v < value THEN 0 ELSE v - value, Val(v))

cell_fetch_sub(t, v, value, order) ==
    IF t # "int" THEN Out(v, Unreachable)
    ELSE Out(wrapping_sub(v, value, BitsOf(t)), Val(v))

----------------------------------------------------------------------------
\* Spec: a single thread owns one element of type `ty` in each mode and issues
\* the same call on both.

NoCall == [op |-> "new", a |-> 0, b |-> 0, oldAtom |-> 0, oldCell |-> 0]

\* Radium::new(value) in both modes.
\* No handle is being encoded.
NoCodec ==
    [pc |-> "none", tag |-> "Lsb0", base |-> 0, head |-> 0, bits |-> 0,
     handle |-> [ptr |-> 0, len |-> 0], out |-> <<>>, moved |-> 0]

Init ==
    /\ ty \in Types
    /\ \E value \in Values(ty) :
        /\ atom = atom_new(value)
        /\ cell = cell_new(value)
        /\ wrote = [atom |-> value, cell |-> value]
    /\ fresh = TRUE
    /\ atomRes = NoRes
    /\ cellRes = NoRes
    /\ last = NoCall
    /\ spurious = FALSE
    /\ shared = 0
    /\ initial = 0
    /\ tpc = [t \in 1 .. NThreads |-> "done"]
    /\ targ = [t \in 1 .. NThreads |-> 0]
    /\ tres = [t \in 1 .. NThreads |-> NoRes]
    /\ ord = "Lsb0"
    /\ source = [head |-> 0, bits |-> <<>>]
    /\ heap = <<>>
    /\ mem = {}
    /\ boxes = <<>>
    /\ raws = <<>>
    /\ foreign = FALSE
    /\ codec = NoCodec

\* A panic unwinds the thread: it issues no further call.
Running == atomRes.tag \notin {"Panic", "Unreachable"}
           /\ cellRes.tag \notin {"Panic", "Unreachable"}

\* No call is in progress: the thread is between two calls.
Idle == last = NoCall

\* The atomic compare_exchange_weak failed although the comparison succeeded.
SpuriousFailure(op, current, oa) ==
    /\ op = "compare_exchange_weak"
    /\ atom = current
    /\ oa.res = Err(atom)

Step(op, a, b, oa, oc) ==
    /\ atom' = oa.val
    /\ atomRes' = oa.res
    /\ cell' = oc.val
    /\ cellRes' = oc.res
    /\ last' = [op |-> op, a |-> a, b |-> b, oldAtom |-> atom, oldCell |-> cell]
    /\ spurious' = (spurious \/ SpuriousFailure(op, a, oa))
    /\ fresh' = (fresh /\ op \in {"load", "fence", "into_inner"})
    /\ wrote' = IF op \in {"load", "fence", "into_inner"} THEN wrote
                ELSE [atom |-> oa.val, cell |-> oc.val]
    /\ UNCHANGED <<ty, concVars, boxVars, codecVars>>

Fence ==
    /\ Idle
    /\ \E order \in Orderings :
           Step("fence", 0, 0, Out(atom, atom_fence(order)), Out(cell, cell_fence(order)))

Load ==
    /\ Idle
    /\ \E order \in Orderings :
           Step("load", 0, 0, atom_load(atom, order), cell_load(cell, order))

Store ==
    /\ Idle
    /\ \E value \in Values(ty), order \in Orderings :
           Step("store", value, 0,
                atom_store(atom, value, order), cell_store(cell, value, order))

Swap ==
    /\ Idle
    /\ \E value \in Values(ty), order \in Orderings :
           Step("swap", value, 0,
                atom_swap(atom, value, order), cell_swap(cell, value, order))

CompareAndSwap ==
    /\ Idle
    /\ \E current \in Values(ty), new \in Values(ty), order \in Orderings :
           Step("compare_and_swap", current, new,
                atom_compare_and_swap(atom, current, new, order),
                cell_compare_and_swap(cell, current, new, order))

CompareExchange ==
    /\ Idle
    /\ \E current \in Values(ty), new \in Values(ty),
          success \in Orderings, failure \in Orderings :
           \E oa \in atom_compare_exchange(atom, current, new, success, failure) :
               Step("compare_exchange", current, new, oa,
                    cell_compare_exchange(cell, current, new, success, failure))

CompareExchangeWeak ==
    /\ Idle
    /\ \E current \in Values(ty), new \in Values(ty),
          success \in Orderings, failure \in Orderings :
           \E oa \in atom_compare_exchange_weak(atom, current, new, success, failure) :
               Step("compare_exchange_weak", current, new, oa,
                    cell_compare_exchange_weak(cell, current, new, success, failure))

\* `where T: IsBits`: the call compiles only for a bit-pattern fundamental.
FetchAnd ==
    /\ Idle
    /\ IsBits(ty)
    /\ \E value \in Values(ty), order \in Orderings :
        Step("fetch_and", value, 0,
             atom_fetch_and(ty, atom, value, order),
             cell_fetch_and(ty, cell, value, order))

FetchNand ==
    /\ Idle
    /\ IsBits(ty)
    /\ \E value \in Values(ty), order \in Orderings :
        Step("fetch_nand", value, 0,
             atom_fetch_nand(ty, atom, value, order),
             cell_fetch_nand(ty, cell, value, order))

FetchOr ==
    /\ Idle
    /\ IsBits(ty)
    /\ \E value \in Values(ty), order \in Orderings :
        Step("fetch_or", value, 0,
             atom_fetch_or(ty, atom, value, order),
             cell_fetch_or(ty, cell, value, order))

FetchXor ==
    /\ Idle
    /\ IsBits(ty)
    /\ \E value \in Values(ty), order \in Orderings :
        Step("fetch_xor", value, 0,
             atom_fetch_xor(ty, atom, value, order),
             cell_fetch_xor(ty, cell, value, order))

\* `where T: IsANum`: the call compiles only for an integer fundamental.
FetchAdd ==
    /\ Idle
    /\ IsANum(ty)
    /\ \E value \in Values(ty), order \in Orderings :
        Step("fetch_add", value, 0,
             atom_fetch_add(ty, atom, value, order),
             cell_fetch_add(ty, cell, value, order))

FetchSub ==
    /\ Idle
    /\ IsANum(ty)
    /\ \E value \in Values(ty), order \in Orderings :
        Step("fetch_sub", value, 0,
             atom_fetch_sub(ty, atom, value, order),
             cell_fetch_sub(ty, cell, value, order))

\* into_inner(self): the element is consumed, no call can follow.
IntoInner ==
    /\ Idle
    /\ Step("into_inner", 0, 0, atom_into_inner(atom), cell_into_inner(cell))

\* The call has returned normally and the thread goes on to its next call.
Resume ==
    /\ ~Idle
    /\ Running
    /\ last.op # "into_inner"
    /\ last' = NoCall
    /\ atomRes' = NoRes
    /\ cellRes' = NoRes
    /\ UNCHANGED <<ty, atom, cell, spurious, wrote, fresh, concVars, boxVars, codecVars>>

Next ==
    \/ Resume
    \/ Fence
    \/ Load
    \/ Store
    \/ Swap
    \/ CompareAndSwap
    \/ CompareExchange
    \/ CompareExchangeWeak
    \/ FetchAnd
    \/ FetchNand
    \/ FetchOr
    \/ FetchXor
    \/ FetchAdd
    \/ FetchSub
    \/ IntoInner

Spec == Init /\ [][Next]_vars

----------------------------------------------------------------------------
\* SpecConc: NThreads threads share one atomic element of a bit-pattern type;
\* each issues one fetch_or.  An atomic read-modify-write is one indivisible
\* step of the machine.

Threads == 1 .. NThreads

InitConc ==
    /\ ty \in {t \in Types : IsBits(t)}
    /\ initial \in Values(ty)
    /\ shared = initial
    /\ targ \in [Threads -> Values(ty)]
    /\ tpc = [t \in Threads |-> "ready"]
    /\ tres = [t \in Threads |-> NoRes]
    /\ atom = 0
    /\ cell = 0
    /\ atomRes = NoRes
    /\ cellRes = NoRes
    /\ last = NoCall
    /\ spurious = FALSE
    /\ wrote = [atom |-> 0, cell |-> 0]
    /\ fresh = TRUE
    /\ ord = "Lsb0"
    /\ source = [head |-> 0, bits |-> <<>>]
    /\ heap = <<>>
    /\ mem = {}
    /\ boxes = <<>>
    /\ raws = <<>>
    /\ foreign = FALSE
    /\ codec = NoCodec

ThreadFetchOr(t) ==
    /\ tpc[t] = "ready"
    /\ \E order \in Orderings :
        LET o == atom_fetch_or(ty, shared, targ[t], order)
        IN  /\ shared' = o.val
            /\ tres' = [tres EXCEPT ![t] = o.res]
    /\ tpc' = [tpc EXCEPT ![t] = "done"]
    /\ UNCHANGED <<initial, targ, radiumVars, boxVars, codecVars>>

NextConc == \E t \in Threads : ThreadFetchOr(t)

SpecConc == InitConc /\ [][NextConc]_vars

----------------------------------------------------------------------------
\* SpecCas: NThreads threads share one atomic element holding `initial`; each
\* thread t calls compare_exchange(initial, targ[t], ..) once.

InitCas ==
    /\ ty \in Types
    /\ initial \in Values(ty)
    /\ shared = initial
    /\ targ \in [Threads -> Values(ty)]
    /\ tpc = [t \in Threads |-> "ready"]
    /\ tres = [t \in Threads |-> NoRes]
    /\ atom = 0
    /\ cell = 0
    /\ atomRes = NoRes
    /\ cellRes = NoRes
    /\ last = NoCall
    /\ spurious = FALSE
    /\ wrote = [atom |-> 0, cell |-> 0]
    /\ fresh = TRUE
    /\ ord = "Lsb0"
    /\ source = [head |-> 0, bits |-> <<>>]
    /\ heap = <<>>
    /\ mem = {}
    /\ boxes = <<>>
    /\ raws = <<>>
    /\ foreign = FALSE
    /\ codec = NoCodec

\* The compare_exchange of thread t is one atomic read-modify-write of the
\* shared element.
ThreadCompareExchange(t) ==
    /\ tpc[t] = "ready"
    /\ \E success \in Orderings, failure \in Orderings :
        \E o \in atom_compare_exchange(shared, initial, targ[t], success, failure) :
            /\ shared' = o.val
            /\ tres' = [tres EXCEPT ![t] = o.res]
    /\ tpc' = [tpc EXCEPT ![t] = "done"]
    /\ UNCHANGED <<initial, targ, radiumVars, boxVars, codecVars>>

NextCas == \E t \in Threads : ThreadCompareExchange(t)

SpecCas == InitCas /\ [][NextCas]_vars

----------------------------------------------------------------------------
\* SpecBox: owned bit regions.  T is a two-byte storage element.

\* size_of::<T>() of the storage element T: BitStore
ElemBytes == 2

\* bits in one storage element
ElemBits == 8 * ElemBytes

BitOrders == {"Lsb0", "Msb0"}

\* Head-bit offsets the source bit sequences start at: the first bit, one past
\* the byte boundary inside an element, and the last bit.
HeadChoices == {0, 9, ElemBits - 1}

\* The bit-span handle: the element address carries the head's upper bits in
\* its alignment bits, the length word carries the head's low three bits
\* below the bit count.
encode(addr, head, bits) ==
    [ptr |-> addr + (head \div 8), len |-> (bits * 8) + (head % 8)]

decode(h) ==
    [addr |-> h.ptr - (h.ptr % ElemBytes),
     head |-> ((h.ptr % ElemBytes) * 8) + (h.len % 8),
     bits |-> h.len \div 8]

\* elements the span touches: ceil((head + bits) / element width)
elements(h) ==
    LET s == decode(h) IN (s.head + s.bits + ElemBits - 1) \div ElemBits

\* BitBox::bit_span: the handle held in `self.pointer`
bit_span(pointer) == [ptr |-> pointer.ptr, len |-> pointer.len]

\* BitSpan::to_bitslice_mut: a slice pointer of the same address and length word
to_bitslice_mut(span) == [ptr |-> span.ptr, len |-> span.len]

\* BitSpan::from_bitslice_ptr_mut: the handle read back from a slice pointer
from_bitslice_ptr_mut(raw) == [ptr |-> raw.ptr, len |-> raw.len]

\* BitSpan::to_nonnull
to_nonnull(span) == [ptr |-> span.ptr, len |-> span.len]

\* from_raw that keeps the bit count of the length word and loses the head
\* bits below it.
from_raw_loses_head(raw) == [ptr |-> raw.ptr, len |-> (raw.len \div 8) * 8]

\* from_raw that aligns the address, losing the head bits it carries.
from_raw_aligns_address(raw) ==
    [ptr |-> raw.ptr - (raw.ptr % ElemBytes), len |-> raw.len]

\* BitBox::from_raw: raw.pipe(from_bitslice_ptr_mut).to_nonnull() becomes
\* `pointer`
from_raw(raw) == to_nonnull(from_bitslice_ptr_mut(raw))

\* leak without ManuallyDrop: b is dropped when leak returns.
leak_without_manually_drop(pointer) ==
    [raw |-> to_bitslice_mut(bit_span(pointer)), dropped |-> TRUE]

\* leak that hands out a slice pointer whose length is the plain bit count.
leak_plain_length(pointer) ==
    [raw |-> [ptr |-> pointer.ptr, len |-> pointer.len \div 8], dropped |-> FALSE]

\* BitBox::leak: b.pipe(ManuallyDrop::new).bit_span().to_bitslice_mut().
\* `dropped` tells whether b's destructor runs when leak returns: wrapped in
\* ManuallyDrop, it does not.
leak(pointer) ==
    [raw |-> to_bitslice_mut(bit_span(pointer)), dropped |-> FALSE]

\* into_raw that reads the span of b and lets b go out of scope.
into_raw_drops_box(pointer) ==
    [raw |-> to_bitslice_mut(bit_span(pointer)), dropped |-> TRUE]

\* into_raw that hands out a null pointer for a region of no bits.
into_raw_null_when_empty(pointer) ==
    IF pointer.len \div 8 = 0
    THEN [raw |-> [ptr |-> 0, len |-> 0], dropped |-> FALSE]
    ELSE [raw |-> to_bitslice_mut(bit_span(pointer)), dropped |-> FALSE]

\* BitBox::into_raw: Self::leak(b)
into_raw(pointer) == leak(pointer)

\* The longest source bit sequence: one bit more than an element holds.
LongBits == ElemBits + 1

\* The platform allocator: the k-th allocation's address; allocations are
\* element-aligned, non-null and do not overlap.
MaxElems == ((ElemBits - 1 + LongBits) \div ElemBits) + 1
AllocBase(k) == k * ElemBytes * (MaxElems + 1)

\* NonNull::dangling() for T: the sentinel of a region that owns no memory
Dangling == ElemBytes

\* The memory location of the i-th bit (from 0) of the span, under ordering o
BitAt(h, o, i) ==
    LET s == decode(h)
        k == s.head + i
        idx == k % ElemBits
    IN  <<s.addr + ((k \div ElemBits) * ElemBytes),
          IF o = "Lsb0" THEN idx ELSE (ElemBits - 1) - idx>>

\* The bit sequence read through a handle
Contents(h) ==
    [i \in 1 .. decode(h).bits |-> IF BitAt(h, ord, i - 1) \in mem THEN 1 ELSE 0]

BitSeqs ==
    UNION {[1 .. n -> {0, 1}] : n \in 0 .. MaxBits}
        \cup {[i \in 1 .. n |-> b] : n \in {ElemBits, LongBits}, b \in {0, 1}}

\* dealloc(address, layout of n elements): releases the allocation made at
\* that address with that layout; anything else is a foreign-pointer free
Matches(a, addr, n) == a.base = addr /\ a.elems = n

Dealloc(addr, n) ==
    [k \in 1 .. Len(heap) |->
        IF Matches(heap[k], addr, n)
        THEN [heap[k] EXCEPT !.frees = heap[k].frees + 1]
        ELSE heap[k]]

IsForeign(addr, n) == \A k \in 1 .. Len(heap) : ~Matches(heap[k], addr, n)

\* The destructor of BitBox: rebuilds the boxed element slice of the span and
\* drops it; a span of no elements owns nothing.
DropHeap(pointer) ==
    IF elements(pointer) = 0 THEN heap
    ELSE Dealloc(decode(pointer).addr, elements(pointer))

DropForeign(pointer) ==
    elements(pointer) # 0 /\ IsForeign(decode(pointer).addr, elements(pointer))

InitBox ==
    /\ ord \in BitOrders
    /\ source \in {s \in [head : HeadChoices, bits : BitSeqs] : Len(s.bits) = 0 => s.head = 0}
    /\ heap = <<>>
    /\ mem = {}
    /\ boxes = <<>>
    /\ raws = <<>>
    /\ foreign = FALSE
    /\ codec = NoCodec
    /\ ty = "int"
    /\ atom = 0
    /\ cell = 0
    /\ atomRes = NoRes
    /\ cellRes = NoRes
    /\ last = NoCall
    /\ spurious = FALSE
    /\ wrote = [atom |-> 0, cell |-> 0]
    /\ fresh = TRUE
    /\ shared = 0
    /\ initial = 0
    /\ tpc = [t \in Threads |-> "done"]
    /\ targ = [t \in Threads |-> 0]
    /\ tres = [t \in Threads |-> NoRes]

\* BitBox::from_bitslice(x), asked for as the k-th allocation: the region's
\* geometry and the allocation made for it, if any.  The allocation holds
\* every element the span touches; an empty x allocates nothing and gets the
\* sentinel address.
from_bitslice(x, k) ==
    IF Len(x.bits) = 0
    THEN [geom |-> [addr |-> Dangling, head |-> 0, bits |-> 0], alloc |-> <<>>]
    ELSE [geom |-> [addr |-> AllocBase(k), head |-> x.head, bits |-> Len(x.bits)],
          alloc |-> <<[base |-> AllocBase(k),
                       elems |-> (x.head + Len(x.bits) + ElemBits - 1) \div ElemBits,
                       frees |-> 0]>>]

\* new that asks the allocator for memory whatever the length of x.
new_always_allocates(x, k) ==
    IF Len(x.bits) = 0
    THEN [geom |-> [addr |-> AllocBase(k), head |-> 0, bits |-> 0],
          alloc |-> <<[base |-> AllocBase(k), elems |-> 0, frees |-> 0]>>]
    ELSE from_bitslice(x, k)

\* BitBox::new: Self::from_bitslice(x)
new(x, k) == from_bitslice(x, k)

\* BitBox::new(x) (BitBox::pin, from_bitslice): x starts at bit
\* source.head of its first element and holds source.bits.  An empty x
\* allocates nothing.
FromBitslice ==
    /\ Len(boxes) < MaxBoxes
    /\ Cardinality({i \in 1 .. Len(boxes) : boxes[i].from = 0}) < MaxAllocs
    /\ LET b == new(source, Len(heap) + 1)
           pointer == encode(b.geom.addr, b.geom.head, b.geom.bits)
       IN  /\ heap' = heap \o b.alloc
           /\ mem' = mem \cup {BitAt(pointer, ord, i - 1) :
                                 i \in {j \in 1 .. Len(source.bits) : source.bits[j] = 1}}
           /\ boxes' = Append(boxes,
                  [st |-> "live", pointer |-> pointer, from |-> 0,
                   geom |-> b.geom, bits |-> source.bits])
    /\ UNCHANGED <<ord, source, raws, foreign, radiumVars, concVars, codecVars>>

\* Hands box i over as a raw pointer through `f` (into_raw or leak).
Decompose(i, via, r) ==
    /\ boxes[i].st = "live"
    /\ raws' = Append(raws, [raw |-> r.raw, via |-> via, of |-> i, uses |-> 0])
    /\ boxes' = [boxes EXCEPT ![i].st = IF r.dropped THEN "dropped" ELSE "moved"]
    /\ heap' = IF r.dropped THEN DropHeap(boxes[i].pointer) ELSE heap
    /\ foreign' = (foreign \/ (r.dropped /\ DropForeign(boxes[i].pointer)))
    /\ UNCHANGED <<ord, source, mem, radiumVars, concVars, codecVars>>

IntoRaw == \E i \in 1 .. Len(boxes) : Decompose(i, "into_raw", into_raw(boxes[i].pointer))

Leak == \E i \in 1 .. Len(boxes) : Decompose(i, "leak", leak(boxes[i].pointer))

\* unsafe BitBox::from_raw(raw): nothing stops the caller from passing the
\* same raw pointer again.
FromRaw ==
    /\ Len(boxes) < MaxBoxes
    /\ \E k \in 1 .. Len(raws) :
        /\ boxes' = Append(boxes,
               [st |-> "live", pointer |-> from_raw(raws[k].raw), from |-> k,
                geom |-> boxes[raws[k].of].geom, bits |-> boxes[raws[k].of].bits])
        /\ raws' = [raws EXCEPT ![k].uses = raws[k].uses + 1]
    /\ UNCHANGED <<ord, source, heap, mem, foreign, radiumVars, concVars, codecVars>>

\* A live box goes out of scope: its destructor runs.
Drop ==
    /\ \E i \in 1 .. Len(boxes) :
        /\ boxes[i].st = "live"
        /\ boxes' = [boxes EXCEPT ![i].st = "dropped"]
        /\ heap' = DropHeap(boxes[i].pointer)
        /\ foreign' = (foreign \/ DropForeign(boxes[i].pointer))
    /\ UNCHANGED <<ord, source, mem, raws, radiumVars, concVars, codecVars>>

NextBox ==
    \/ FromBitslice
    \/ IntoRaw
    \/ Leak
    \/ FromRaw
    \/ Drop

SpecBox == InitBox /\ [][NextBox]_vars

----------------------------------------------------------------------------
\* SpecCodec: one bit-span handle is encoded from (base, ordering tag, head
\* bit, bit length), stepped forward, taken through a raw slice pointer and
\* decoded.

\* The address space: addresses and length words are WordBits wide.
AddrLimit == Pow2(WordBits)

\* The longest region a handle describes: the length word keeps the bit count
\* above the three low bits of the head.
RegionMaxBits == Pow2(WordBits - 3) - 1

\* The bases a caller may hand to encode: null, the first and the last
\* element of the address space, and one in between.
CodecBases == {0, ElemBytes, 4 * ElemBytes, AddrLimit - ElemBytes}

\* The head bits a caller may hand to encode: every valid one and the first
\* two that are out of range.
CodecHeads == 0 .. (ElemBits + 1)

\* The bit lengths a caller may hand to encode: up to one past the maximum.
CodecLengths == {0, 1, ElemBits - 1, ElemBits, RegionMaxBits - 1, RegionMaxBits, RegionMaxBits + 1}

\* The distances a handle is stepped by: up to one bit more than an element.
StepChoices == 0 .. (ElemBits + 1)

\* encode that takes the head bit as given.
encode_checked_any_head(base, head, bits) ==
    IF base = 0 THEN Err("Null")
    ELSE IF bits > RegionMaxBits THEN Err("TooLong")
    ELSE Ok(encode(base, head, bits))

\* The checked constructor of a handle: the construction errors are reported
\* as values.
encode_checked(base, head, bits) ==
    IF base = 0 THEN Err("Null")
    ELSE IF head >= ElemBits THEN Err("HeadOutOfRange")
    ELSE IF bits > RegionMaxBits THEN Err("TooLong")
    ELSE Ok(encode(base, head, bits))

\* step that advances the address by one address unit for every element
\* crossed, whatever the size of an element.
step_advances_units(h, k) ==
    LET s == decode(h)
        total == s.head + k
        addr == s.addr + (total \div ElemBits)
    IN  IF addr + ElemBytes > AddrLimit THEN Err("Overflow")
        ELSE Ok(encode(addr, total % ElemBits, s.bits))

\* Stepping a handle forward by k bits: the head wraps at the element width
\* and the base advances by the elements crossed, checked against the end of
\* the address space.
step(h, k) ==
    LET s == decode(h)
        total == s.head + k
        addr == s.addr + ((total \div ElemBits) * ElemBytes)
    IN  IF addr + ElemBytes > AddrLimit THEN Err("Overflow")
        ELSE Ok(encode(addr, total % ElemBits, s.bits))

InitCodec ==
    /\ \E tag \in BitOrders, base \in CodecBases, head \in CodecHeads,
          bits \in CodecLengths :
            codec = [NoCodec EXCEPT !.pc = "input", !.tag = tag, !.base = base,
                                    !.head = head, !.bits = bits]
    /\ ord = "Lsb0"
    /\ source = [head |-> 0, bits |-> <<>>]
    /\ heap = <<>>
    /\ mem = {}
    /\ boxes = <<>>
    /\ raws = <<>>
    /\ foreign = FALSE
    /\ ty = "int"
    /\ atom = 0
    /\ cell = 0
    /\ atomRes = NoRes
    /\ cellRes = NoRes
    /\ last = NoCall
    /\ spurious = FALSE
    /\ wrote = [atom |-> 0, cell |-> 0]
    /\ fresh = TRUE
    /\ shared = 0
    /\ initial = 0
    /\ tpc = [t \in Threads |-> "done"]
    /\ targ = [t \in Threads |-> 0]
    /\ tres = [t \in Threads |-> NoRes]

\* encode(base, tag, head_bit, bit_length)
Encode ==
    /\ codec.pc = "input"
    /\ LET r == encode_checked(codec.base, codec.head, codec.bits)
       IN  codec' = IF r.tag = "Ok"
                    THEN [codec EXCEPT !.pc = "encoded", !.handle = r.v]
                    ELSE [codec EXCEPT !.pc = "failed", !.out = <<r.v>>]
    /\ UNCHANGED <<radiumVars, concVars, boxVars>>

\* The handle is stepped forward by k bits, once.
StepForward ==
    /\ codec.pc = "encoded"
    /\ codec.moved = 0
    /\ \E k \in StepChoices \ {0} :
        LET r == step(codec.handle, k)
        IN  codec' = IF r.tag = "Ok"
                     THEN [codec EXCEPT !.handle = r.v, !.moved = k]
                     ELSE [codec EXCEPT !.pc = "overflow", !.moved = k,
                                        !.out = <<r.v>>]
    /\ UNCHANGED <<radiumVars, concVars, boxVars>>

\* The handle is held by a region that is decomposed with into_raw and
\* rebuilt with from_raw.
RawRoundTrip ==
    /\ codec.pc = "encoded"
    /\ codec' = [codec EXCEPT !.pc = "rebuilt",
                              !.handle = from_raw(into_raw(codec.handle).raw)]
    /\ UNCHANGED <<radiumVars, concVars, boxVars>>

\* decode(handle); the ordering tag is the handle's type parameter.
Decode ==
    /\ codec.pc \in {"encoded", "rebuilt"}
    /\ LET s == decode(codec.handle)
       IN  codec' = [codec EXCEPT
                        !.pc = IF codec.pc = "rebuilt" THEN "decoded raw" ELSE "decoded",
                        !.out = <<[base |-> s.addr, tag |-> codec.tag,
                                   head |-> s.head, bits |-> s.bits]>>]
    /\ UNCHANGED <<radiumVars, concVars, boxVars>>

NextCodec ==
    \/ Encode
    \/ StepForward
    \/ RawRoundTrip
    \/ Decode

SpecCodec == InitCodec /\ [][NextCodec]_vars

----------------------------------------------------------------------------
\* Properties

\* bit i of the pattern v
Bit(v, i) == (v \div Pow2(i)) % 2

BitIndices == 0 .. (BitsOf(ty) - 1)

\* the atomic call of the last step returned (its orderings were accepted)
Returned == atomRes.tag # "Panic"

\* C1 as stated: after every call the atomic wrapper and the Cell hold the
\* same value and have returned the same result.
C1_AtomicPlainEquivalent ==
    Returned => (atom = cell /\ atomRes = cellRes)

\* C1 amended: the two modes hold the same value and have returned the same
\* result as long as no atomic compare_exchange_weak has failed spuriously.
C1_EquivalentUnlessSpurious ==
    (Returned /\ ~spurious) => (atom = cell /\ atomRes = cellRes)

\* C1 witness: after an earlier call changed the value, both modes have
\* completed a compare_exchange_weak that succeeded.
C1_Witness ==
    /\ ~spurious
    /\ last.op = "compare_exchange_weak"
    /\ atomRes.tag = "Ok"
    /\ cellRes.tag = "Ok"
    /\ atom # last.oldAtom
    /\ ty = "int"

\* C7: no call ever runs an unreachable!() body: bit-wise operations are
\* only issued on bool and integers, numeric ones only on integers.
C7_CapabilityGating ==
    /\ atomRes.tag # "Unreachable"
    /\ cellRes.tag # "Unreachable"
    /\ last.op \in {"fetch_and", "fetch_nand", "fetch_or", "fetch_xor"} => ty # "ptr"
    /\ last.op \in {"fetch_add", "fetch_sub"} => ty \notin {"bool", "ptr"}
    /\ \A t \in Types : (IsBits(t) <=> t \in {"bool", "int"}) /\ (IsANum(t) <=> t = "int")

\* C7 witness: a bit-wise operation has run on a bool element, which has the
\* bit capability and not the numeric one.
C7_Witness ==
    /\ ty = "bool"
    /\ last.op = "fetch_xor"
    /\ atomRes.tag = "Val"
    /\ ~IsANum(ty)

\* C8: compare_exchange(current, new) returns Ok(current) and stores new when
\* the stored value equals current, and otherwise returns Err(stored value)
\* and stores nothing, in both modes.
C8_CompareExchange ==
    last.op = "compare_exchange" =>
        /\ Returned =>
              IF last.oldAtom = last.a
              THEN atomRes = Ok(last.a) /\ atom = last.b
              ELSE atomRes = Err(last.oldAtom) /\ atom = last.oldAtom
        /\ IF last.oldCell = last.a
           THEN cellRes = Ok(last.a) /\ cell = last.b
           ELSE cellRes = Err(last.oldCell) /\ cell = last.oldCell

\* C8 witness: a compare_exchange failed in both modes, returning the stored
\* value, which is neither current nor new.
C8_Witness ==
    /\ last.op = "compare_exchange"
    /\ atomRes.tag = "Err"
    /\ cellRes.tag = "Err"
    /\ last.oldAtom # last.a
    /\ last.oldAtom # last.b
    /\ last.a # last.b

\* C9: compare_and_swap(current, new) returns the previously stored value;
\* the stored value becomes new exactly when that value equals current.
C9_CompareAndSwap ==
    last.op = "compare_and_swap" =>
        /\ atomRes = Val(last.oldAtom)
        /\ cellRes = Val(last.oldCell)
        /\ atom = (IF last.oldAtom = last.a THEN last.b ELSE last.oldAtom)
        /\ cell = (IF last.oldCell = last.a THEN last.b ELSE last.oldCell)

\* C9 witness: a compare_and_swap has replaced the stored value by another one.
C9_Witness ==
    /\ last.op = "compare_and_swap"
    /\ last.oldCell = last.a
    /\ last.a # last.b
    /\ cell = last.b
    /\ atom = last.b

\* what a bit-wise operation makes of the bits p (old) and q (operand)
BitResult(op, p, q) ==
    CASE op = "fetch_and" -> IF p = 1 /\ q = 1 THEN 1 ELSE 0
      [] op = "fetch_or" -> IF p = 1 \/ q = 1 THEN 1 ELSE 0
      [] op = "fetch_xor" -> IF p # q THEN 1 ELSE 0
      [] op = "fetch_nand" -> IF p = 1 /\ q = 1 THEN 0 ELSE 1

\* C10: fetch_and, fetch_or, fetch_xor and fetch_nand return the previously
\* stored value and store old & value, old | value, old ^ value and
\* !(old & value), bit by bit, on bool and integers, in both modes.
C10_FetchBitwise ==
    last.op \in {"fetch_and", "fetch_nand", "fetch_or", "fetch_xor"} =>
        /\ atomRes = Val(last.oldAtom)
        /\ cellRes = Val(last.oldCell)
        /\ atom \in Values(ty)
        /\ cell \in Values(ty)
        /\ \A i \in BitIndices :
              /\ Bit(atom, i) = BitResult(last.op, Bit(last.oldAtom, i), Bit(last.a, i))
              /\ Bit(cell, i) = BitResult(last.op, Bit(last.oldCell, i), Bit(last.a, i))

\* C10 witness: a fetch_nand on an integer has set some bits and cleared
\* others.
C10_Witness ==
    /\ last.op = "fetch_nand"
    /\ ty = "int"
    /\ \E i \in BitIndices : Bit(last.oldCell, i) = 0 /\ Bit(cell, i) = 1
    /\ \E i \in BitIndices : Bit(last.oldCell, i) = 1 /\ Bit(cell, i) = 0

Disjoint(m1, m2) == \A i \in BitIndices : Bit(m1, i) + Bit(m2, i) <= 1

DisjointMasks == \A t \in Threads, u \in Threads : t # u => Disjoint(targ[t], targ[u])

AllDone == \A t \in Threads : tpc[t] = "done"

\* C2: once every thread has completed its fetch_or, with pairwise disjoint
\* masks, the element holds the initial value or-ed with every mask, whatever
\* the order the threads ran in.
C2_NoLostUpdate ==
    (AllDone /\ DisjointMasks) =>
        /\ shared \in Values(ty)
        /\ \A i \in BitIndices :
              Bit(shared, i) = 1 <=>
                  (Bit(initial, i) = 1 \/ \E t \in Threads : Bit(targ[t], i) = 1)

\* C2 witness: two threads have set two different bits of an integer element.
C2_Witness ==
    /\ AllDone
    /\ DisjointMasks
    /\ ty = "int"
    /\ targ[1] # 0
    /\ targ[2] # 0
    /\ shared # initial

----------------------------------------------------------------------------
\* Properties of SpecBox

BoxIds == 1 .. Len(boxes)
RawIds == 1 .. Len(raws)

\* a region of no bits owns no allocation
Owning(b) == b.geom.bits > 0

\* the allocation made for box b (or for the box b descends from)
AllocOf(b) == CHOOSE k \in 1 .. Len(heap) : heap[k].base = b.geom.addr

\* the region a raw pointer was made from
Origin(k) == boxes[raws[k].of]

\* every raw pointer to b's allocation went to from_raw at most once
ProperlyUsed(b) ==
    \A k \in RawIds : Origin(k).geom.addr = b.geom.addr => raws[k].uses <= 1

Reconstructed(i, via) == boxes[i].from # 0 /\ raws[boxes[i].from].via = via

\* C3: a region rebuilt by from_raw from the pointer into_raw returned has
\* the base address, head bit and bit length its region was allocated with
\* and reads the same bits; dropping it frees the allocation exactly once.
C3_OwnershipRoundTrip ==
    \A i \in BoxIds :
        Reconstructed(i, "into_raw") =>
            /\ decode(boxes[i].pointer) = boxes[i].geom
            /\ boxes[i].pointer = Origin(boxes[i].from).pointer
            /\ (Owning(boxes[i]) /\ heap[AllocOf(boxes[i])].frees = 0) =>
                   Contents(boxes[i].pointer) = boxes[i].bits
            /\ (Owning(boxes[i]) /\ ProperlyUsed(boxes[i]) /\ boxes[i].st = "dropped") =>
                   heap[AllocOf(boxes[i])].frees = 1

\* C3 witness: a region whose bits start inside an element and cross into
\* the next one went through into_raw and from_raw and was dropped.
C3_Witness ==
    \E i \in BoxIds :
        /\ Reconstructed(i, "into_raw")
        /\ boxes[i].st = "dropped"
        /\ boxes[i].geom.head = ElemBits - 1
        /\ boxes[i].geom.bits = 2
        /\ 1 \in {boxes[i].bits[j] : j \in 1 .. 2}
        /\ heap[AllocOf(boxes[i])].frees = 1

\* C4: once a leaked region has been rebuilt by from_raw and the rebuilt
\* region dropped, its allocation has been freed once: not zero times, not
\* twice.
C4_LeakFreedOnce ==
    \A i \in BoxIds :
        (/\ Reconstructed(i, "leak")
         /\ boxes[i].st = "dropped"
         /\ Owning(boxes[i])
         /\ ProperlyUsed(boxes[i])) =>
            heap[AllocOf(boxes[i])].frees = 1

\* C4 witness: leak, from_raw, drop has run on a region that owns memory.
C4_Witness ==
    \E i \in BoxIds :
        /\ Reconstructed(i, "leak")
        /\ boxes[i].st = "dropped"
        /\ Owning(boxes[i])
        /\ raws[boxes[i].from].uses = 1
        /\ Origin(boxes[i].from).from = 0

\* C5: into_raw and leak do not run the destructor: while a raw pointer has
\* not been given to from_raw, the region it came from is not dropped and
\* its allocation is not freed.
C5_NoFreeWhileDecomposed ==
    \A k \in RawIds :
        (raws[k].uses = 0 /\ ProperlyUsed(Origin(k))) =>
            /\ Origin(k).st = "moved"
            /\ Owning(Origin(k)) => heap[AllocOf(Origin(k))].frees = 0

\* C5 witness: one region sits leaked and never rebuilt while another
\* region has been dropped and freed.
C5_Witness ==
    \E k \in RawIds :
        /\ raws[k].uses = 0
        /\ Owning(Origin(k))
        /\ \E a \in 1 .. Len(heap) : heap[a].frees = 1

\* C6: while no raw pointer to it went to from_raw twice, an allocation is
\* freed at most once, and is freed exactly if a region owning it has been
\* dropped; two dropped regions rebuilt from one raw pointer are a double
\* free.
C6_FreedOncePerOwner ==
    /\ \A i \in BoxIds :
          (Owning(boxes[i]) /\ ProperlyUsed(boxes[i])) =>
              /\ heap[AllocOf(boxes[i])].frees <= 1
              /\ heap[AllocOf(boxes[i])].frees = 1 <=>
                    \E j \in BoxIds : /\ boxes[j].geom.addr = boxes[i].geom.addr
                                      /\ boxes[j].st = "dropped"
    /\ \A i \in BoxIds, j \in BoxIds :
          (/\ i # j
           /\ boxes[i].from # 0
           /\ boxes[i].from = boxes[j].from
           /\ Owning(boxes[i])
           /\ boxes[i].st = "dropped"
           /\ boxes[j].st = "dropped") =>
              heap[AllocOf(boxes[i])].frees >= 2
    /\ ~foreign

\* C6 witness: from_raw ran twice on one raw pointer, both regions were
\* dropped and the allocation was freed twice.
C6_Witness ==
    \E i \in BoxIds, j \in BoxIds :
        /\ i # j
        /\ boxes[i].from # 0
        /\ boxes[i].from = boxes[j].from
        /\ boxes[i].st = "dropped"
        /\ boxes[j].st = "dropped"
        /\ Owning(boxes[i])
        /\ heap[AllocOf(boxes[i])].frees = 2

----------------------------------------------------------------------------
\* Properties of the numeric operations

\* C11: fetch_add and fetch_sub return the previously stored value and store
\* old + value and old - value reduced modulo 2^width: the stored value is
\* in range and differs from the exact sum or difference by a multiple of
\* 2^width, in both modes.
C11_FetchAddSubWrap ==
    last.op \in {"fetch_add", "fetch_sub"} =>
        LET exactAtom == IF last.op = "fetch_add" THEN last.oldAtom + last.a
                         ELSE last.oldAtom - last.a
            exactCell == IF last.op = "fetch_add" THEN last.oldCell + last.a
                         ELSE last.oldCell - last.a
        IN  /\ atomRes = Val(last.oldAtom)
            /\ cellRes = Val(last.oldCell)
            /\ atom \in Values(ty)
            /\ cell \in Values(ty)
            /\ \E k \in {-1, 0, 1} : atom = exactAtom + (k * Pow2(BitsOf(ty)))
            /\ \E k \in {-1, 0, 1} : cell = exactCell + (k * Pow2(BitsOf(ty)))

\* C11 witness: a fetch_sub has wrapped below zero to a larger value.
C11_Witness ==
    /\ last.op = "fetch_sub"
    /\ last.oldCell < last.a
    /\ cell > last.oldCell
    /\ atom = cell
    /\ cellRes = Val(last.oldCell)

----------------------------------------------------------------------------
\* Properties of the handle codec

\* what the caller handed to encode
CodecInput ==
    [base |-> codec.base, tag |-> codec.tag, head |-> codec.head, bits |-> codec.bits]

\* C12: decoding an encoded handle gives back exactly the base address, the
\* ordering tag, the head bit and the bit length it was encoded from, also
\* when the handle went through into_raw and from_raw in between.
C12_CodecRoundTrip ==
    (codec.pc \in {"decoded", "decoded raw"} /\ codec.moved = 0) =>
        codec.out = <<CodecInput>>

C12_Witness ==
    /\ codec.pc = "decoded raw"
    /\ codec.moved = 0
    /\ codec.head = ElemBits - 1
    /\ codec.bits = RegionMaxBits
    /\ codec.base = AddrLimit - ElemBytes
    /\ codec.out = <<CodecInput>>

\* C13: encode reports a construction error, as a failure value, exactly when
\* the base is null, the head bit is not below the element width or the bit
\* length is above the platform maximum; on every other input it yields a
\* handle.
C13_EncodeErrors ==
    codec.pc \notin {"none", "input"} =>
        LET invalid == \/ codec.base = 0
                       \/ codec.head >= ElemBits
                       \/ codec.bits > RegionMaxBits
        IN  /\ (codec.pc = "failed") <=> invalid
            /\ codec.pc = "failed" =>
                    codec.out \in {<<"Null">>, <<"HeadOutOfRange">>, <<"TooLong">>}
            /\ codec.pc = "encoded" =>
                    codec.handle \in [ptr : 1 .. (AddrLimit - 1), len : 0 .. (AddrLimit - 1)]

C13_Witness ==
    /\ codec.pc = "failed"
    /\ codec.base = AddrLimit - ElemBytes
    /\ codec.head = ElemBits - 1
    /\ codec.bits = RegionMaxBits + 1
    /\ codec.out = <<"TooLong">>

\* the handle's position after the steps taken
Stepped == decode(codec.handle)

\* C14: after a handle is stepped forward by k bits its head bit is
\* (head + k) mod element width and its base has advanced by
\* (head + k) div element width elements; from the last bit of an element one
\* step leads to bit 0 of the next element.
C14_StepForward ==
    (codec.pc \in {"encoded", "rebuilt", "decoded", "decoded raw"} /\ codec.moved > 0) =>
        /\ Stepped.head = (codec.head + codec.moved) % ElemBits
        /\ Stepped.addr =
              codec.base + (((codec.head + codec.moved) \div ElemBits) * ElemBytes)
        /\ (codec.head = ElemBits - 1 /\ codec.moved = 1) =>
              (Stepped.head = 0 /\ Stepped.addr = codec.base + ElemBytes)

C14_Witness ==
    /\ codec.pc = "encoded"
    /\ codec.head = ElemBits - 1
    /\ codec.moved = 1
    /\ Stepped.head = 0
    /\ Stepped.addr = codec.base + ElemBytes

----------------------------------------------------------------------------
\* Properties of allocation and of the handles in use

\* the least number of elements that hold n bits
CeilElems(n) == CHOOSE e \in 0 .. n : e * ElemBits >= n /\ (e = 0 \/ (e - 1) * ElemBits < n)

\* the regions allocated from the source bit sequence
Allocated == {i \in BoxIds : boxes[i].from = 0}

\* C15: a region allocated from a bit sequence of length L that starts at
\* head bit 0 gets an allocation of exactly ceil(L / element width) elements
\* and has bit length L; for L = 0 the allocator is never called and the
\* region has bit length 0.
C15_AllocationSizing ==
    source.head = 0 =>
        LET L == Len(source.bits)
        IN  /\ \A i \in Allocated : decode(boxes[i].pointer).bits = L
            /\ L = 0 => heap = <<>>
            /\ L > 0 =>
                /\ Len(heap) = Cardinality(Allocated)
                /\ \A k \in 1 .. Len(heap) : heap[k].elems = CeilElems(L)

C15_Witness ==
    /\ source.head = 0
    /\ Len(source.bits) = LongBits
    /\ Cardinality(Allocated) = 2
    /\ Len(heap) = 2
    /\ heap[2].elems = 2

\* a handle, or the handle a raw slice pointer carries, is properly encoded
WellFormed(h) ==
    LET s == decode(h)
    IN  /\ h.ptr # 0
        /\ s.addr # 0
        /\ s.head < ElemBits
        /\ s.bits <= RegionMaxBits

\* C16: the handle of every region and every raw pointer that into_raw
\* returned, also for a region of no bits, has a non-null base address, a head
\* bit below the element width and a bit length within the platform maximum.
C16_HandlesWellFormed ==
    /\ \A i \in BoxIds : WellFormed(boxes[i].pointer)
    /\ \A k \in RawIds : raws[k].via = "into_raw" => WellFormed(raws[k].raw)

C16_Witness ==
    \E k \in RawIds :
        /\ raws[k].via = "into_raw"
        /\ decode(raws[k].raw).bits = 0
        /\ raws[k].raw.ptr = Dangling
        /\ WellFormed(raws[k].raw)

----------------------------------------------------------------------------
\* Properties of plain mode and of the stored value

\* what the plain-mode call `op` on a Cell holding v gives under the
\* orderings o and f
cell_call(op, v, a, b, o, f) ==
    CASE op = "fence" -> Out(v, cell_fence(o))
      [] op = "load" -> cell_load(v, o)
      [] op = "into_inner" -> cell_into_inner(v)
      [] op = "store" -> cell_store(v, a, o)
      [] op = "swap" -> cell_swap(v, a, o)
      [] op = "compare_and_swap" -> cell_compare_and_swap(v, a, b, o)
      [] op = "compare_exchange" -> cell_compare_exchange(v, a, b, o, f)
      [] op = "compare_exchange_weak" -> cell_compare_exchange_weak(v, a, b, o, f)
      [] op = "fetch_and" -> cell_fetch_and(ty, v, a, o)
      [] op = "fetch_nand" -> cell_fetch_nand(ty, v, a, o)
      [] op = "fetch_or" -> cell_fetch_or(ty, v, a, o)
      [] op = "fetch_xor" -> cell_fetch_xor(ty, v, a, o)
      [] op = "fetch_add" -> cell_fetch_add(ty, v, a, o)
      [] op = "fetch_sub" -> cell_fetch_sub(ty, v, a, o)

\* C17: in plain mode the ordering arguments have no effect: whatever
\* orderings a call is given, it returns the same result and leaves the same
\* value stored; fence leaves the stored value as it was.
C17_PlainIgnoresOrdering ==
    ~Idle =>
        /\ \A o \in Orderings, f \in Orderings :
               cell_call(last.op, last.oldCell, last.a, last.b, o, f) = Out(cell, cellRes)
        /\ last.op = "fence" => (cell = last.oldCell /\ cellRes = Unit)

C17_Witness ==
    /\ last.op = "store"
    /\ atomRes = Panic
    /\ cellRes = Unit
    /\ cell = last.a
    /\ cell # last.oldCell

\* C18: load and fence leave the stored value as it was; store and swap
\* leave their argument stored; and a load returns the value that the last
\* call other than load and fence left stored, in both modes.
C18_LoadSeesLastWrite ==
    /\ (last.op \in {"load", "fence"}) => (atom = last.oldAtom /\ cell = last.oldCell)
    /\ (last.op \in {"store", "swap"}) =>
            (cell = last.a /\ (Returned => atom = last.a))
    /\ (last.op = "load" /\ Returned) => atomRes = Val(wrote.atom)
    /\ last.op = "load" => cellRes = Val(wrote.cell)
    /\ wrote = [atom |-> atom, cell |-> cell]

C18_Witness ==
    /\ last.op = "load"
    /\ atomRes = Val(wrote.atom)
    /\ cellRes = Val(wrote.cell)
    /\ wrote.atom = Pow2(BitsOf(ty)) - 1
    /\ ty = "int"
    /\ spurious

\* C19: the plain-mode compare_exchange_weak does what compare_exchange
\* does: it fails only when the stored value differs from `current`, and
\* then returns the stored value and stores nothing.
C19_PlainWeakNeverSpurious ==
    last.op = "compare_exchange_weak" =>
        /\ \A o \in Orderings, f \in Orderings :
               Out(cell, cellRes) = cell_compare_exchange(last.oldCell, last.a, last.b, o, f)
        /\ last.oldCell = last.a => (cellRes = Ok(last.a) /\ cell = last.b)
        /\ last.oldCell # last.a => (cellRes = Err(last.oldCell) /\ cell = last.oldCell)

C19_Witness ==
    /\ last.op = "compare_exchange_weak"
    /\ atomRes.tag = "Err"
    /\ last.oldAtom = last.a
    /\ last.oldCell = last.a
    /\ cellRes = Ok(last.a)
    /\ cell = last.b
    /\ cell # last.oldCell

----------------------------------------------------------------------------
\* Properties of concurrent compare_exchange

\* the threads whose compare_exchange has returned, and those it returned Ok to
CasReturned == {t \in Threads : tpc[t] = "done" /\ tres[t].tag # "Panic"}
CasWinners == {t \in Threads : tres[t].tag = "Ok"}

\* C20: when the threads call compare_exchange with the same `current`, the
\* value the element holds, and with new values other than it, exactly one of
\* the calls that return gives Ok(current); every other one gives Err with
\* the value that the successful call, which came before it, stored.
C20_OneWinner ==
    (\A t \in Threads : targ[t] # initial) =>
        /\ Cardinality(CasWinners) <= 1
        /\ CasReturned # {} => Cardinality(CasWinners) = 1
        /\ \A w \in CasWinners :
            /\ tres[w] = Ok(initial)
            /\ shared = targ[w]
            /\ \A t \in CasReturned \ {w} : tres[t] = Err(targ[w])

C20_Witness ==
    /\ AllDone
    /\ \A t \in Threads : targ[t] # initial
    /\ CasReturned = Threads
    /\ \E w \in Threads :
        /\ tres[w] = Ok(initial)
        /\ \A t \in Threads \ {w} : tres[t] = Err(targ[w]) /\ targ[t] # targ[w]

----------------------------------------------------------------------------
\* Properties of new, load, store, swap and into_inner

\* C21: in both modes a load or into_inner that follows new(v) with no
\* write in between returns v; store(x) leaves x stored and swap(x) returns
\* the value stored before and leaves x stored; and load and into_inner
\* return the value of the most recent write.
C21_NewLoadStoreSwap ==
    /\ fresh => (wrote.atom = wrote.cell /\ atom = wrote.atom /\ cell = wrote.cell)
    /\ (last.op \in {"load", "into_inner"}) =>
            /\ cellRes = Val(wrote.cell)
            /\ Returned => atomRes = Val(wrote.atom)
    /\ last.op = "store" =>
            /\ cellRes = Unit /\ cell = last.a /\ wrote.cell = last.a
            /\ Returned => (atomRes = Unit /\ atom = last.a /\ wrote.atom = last.a)
    /\ last.op = "swap" =>
            /\ cellRes = Val(last.oldCell) /\ cell = last.a /\ wrote.cell = last.a
            /\ atomRes = Val(last.oldAtom) /\ atom = last.a /\ wrote.atom = last.a

C21_Witness ==
    /\ last.op = "into_inner"
    /\ ~fresh
    /\ ty = "int"
    /\ atomRes = Val(Pow2(BitsOf(ty)) - 1)
    /\ cellRes = atomRes
    /\ wrote = [atom |-> Pow2(BitsOf(ty)) - 1, cell |-> Pow2(BitsOf(ty)) - 1]

====
